---- MODULE Spec2Model ----
(***************************************************************************)
(* Price Visibility Booster: the paginated fetchers (downloadReport,       *)
(* getProductList, GoogleAdsApi.executeSearch), the label classifier       *)
(* (calculateLabel) and the reconciler (mergeData), modelled from the      *)
(* Apps Script sources.                                                    *)
(*                                                                         *)
(* Encodings.  A JavaScript object is a TLA+ function whose DOMAIN is the  *)
(* set of its own keys, so "x.f != null" is "f" \in DOMAIN x.  A page      *)
(* token is a natural number (the index of the page before the one it      *)
(* names); the initial token '' is EmptyToken and undefined/null is Null.  *)
(* A text built by string concatenation is a Msg: its literal text, with   *)
(* # for every interpolated value, and the interpolated values.            *)
(***************************************************************************)
EXTENDS Integers, Sequences, FiniteSets, TLC

\* ------------------------------------------------------------------ bounds
\* The endpoint's data set holds 1..MaxPages pages of 0..MaxPageLen records.
MaxPages == 3
MaxPageLen == 1

\* ------------------------------------------------------- program constants
\* let maxTries = 3;
maxTries == 3
\* let pageToken = '';  the token of the first request
EmptyToken == 0
\* undefined / null: an absent nextPageToken, an unset options.pageToken
Null == -1
\* the codes the endpoint reports; 500 is the one the fetchers single out
InternalError == 500
ErrorCodes == {400, 500, 503}
\* AT_BENCHMARK_RULE_RAW / 100
PercentDivisor == 100

VARIABLES
  fn,              \* the function under execution
  apiHasList,      \* whether the api object passed in has a list_products method
  countOnly,       \* executeSearch's countOnly parameter
  pages,           \* the endpoint's data set: a sequence of pages (result lists)
  pageToken,       \* downloadReport / getProductList: let pageToken
  fullResults,     \* downloadReport / getProductList: let fullResults
  nTries,          \* downloadReport: let nTries
  optionsPageToken,\* executeSearch: options.pageToken
  resultRecords,   \* executeSearch: let resultRecords
  resultCount,     \* executeSearch: let resultCount
  status,          \* "running", "returned", or the exception that ended the call
  thrown,          \* the message of the Error thrown by the function itself
  retval,          \* the value returned
  logs,            \* Logger.log output of the call under way, in order
  requests,        \* the page token of every request sent, in order
  raws             \* the raw HTTP response to every request, in order

fetchVars == <<fn, apiHasList, countOnly, pages, pageToken, fullResults, nTries,
               optionsPageToken, resultRecords, resultCount, status, thrown,
               retval, logs, requests, raws>>

VARIABLES
  BELOW_BENCHMARK_RULE,  \* constants.js: the below rule, normalised to <= 0
  AT_BENCHMARK_RULE,     \* constants.js: the at rule, normalised to >= 0
  ABOVE_BENCHMARK_RULE,  \* constants.js: the above rule, as configured
  relativePrice,         \* calculateLabel's argument
  custom_label,          \* calculateLabel's result
  labelled               \* whether calculateLabel has returned

labelVars == <<relativePrice, custom_label, labelled>>

VARIABLES
  STOCK_ENABLED,     \* constants.js: stockInfo.enabled
  STOCK_THRESHOLD,   \* constants.js: stockInfo.threshold
  ACTIVATE_LABELS,   \* constants.js: activateLabels
  EXPORT_LABELS,     \* constants.js: the names of the checked exportLabels rows
  benchmarkData,     \* mergeData's argument: the rows of the benchmark report
  productData,       \* mergeData's argument: product id -> stock and availability
  statsData,         \* mergeData's argument: offer id -> impressions and clicks, or null
  output,            \* mergeData: let output
  supplemental_feed, \* mergeData: let supplemental_feed
  emitted,           \* the places in benchmarkData of the rows pushed, in order
  mergeStatus,       \* "idle", "returned", or the exception that ended mergeData
  sheets,            \* sheet name -> the rows the sheet holds
  updatedAt,         \* named range -> whether this run has set its timestamp
  sheetOps           \* the calls made on the spreadsheet, in order

configVars == <<STOCK_ENABLED, STOCK_THRESHOLD, ACTIVATE_LABELS, EXPORT_LABELS>>

mergeVars == <<benchmarkData, productData, statsData, output, supplemental_feed,
               emitted, mergeStatus, sheets, updatedAt, sheetOps>>

ruleVars == <<BELOW_BENCHMARK_RULE, AT_BENCHMARK_RULE, ABOVE_BENCHMARK_RULE>>

VARIABLES
  nested,      \* the caller's object, flatten's argument, as it is now
  passed,      \* the object as it was when flatten was called
  flattened,   \* flatten's result
  flattenDone  \* whether flatten has returned

flattenVars == <<nested, passed, flattened, flattenDone>>

VARIABLES
  runAt,           \* runVisibilityBooster: the call under way, "done" after the run
  runStatus,       \* "running", "returned", or the exception that ended the run
  merchantIdBound, \* whether the global scope binds `merchantId`
  LogBound,        \* whether the global scope binds `Log`
  benchmarkPages,  \* the data set behind the price benchmark query
  statPages,       \* the data set behind the performance query
  batch_size,      \* getProducts' parameter
  offerList,       \* runVisibilityBooster: let offerList, getProducts' productList
  batchAt,         \* getProducts: how many elements of productList forEach has visited
  responses,       \* getProducts: let responses
  batchRequests,   \* the product ids of every batch request sent, in order
  batchResponses   \* the raw HTTP response to every batch request, in order

runVars == <<runAt, runStatus, merchantIdBound, LogBound, benchmarkPages,
             statPages, batch_size, offerList, batchAt, responses, batchRequests,
             batchResponses>>

vars == <<fetchVars, ruleVars, labelVars, configVars, mergeVars, flattenVars,
          runVars>>

\* ---------------------------------------------------------------- numbers
\* A JavaScript number that need not be whole is the fraction n/d, d > 0;
\* comparisons are exact (floating-point rounding is not modelled).
Rat(n, d) == [n |-> n, d |-> d]
Less(a, b) == a.n * b.d < b.n * a.d
LessEq(a, b) == a.n * b.d <= b.n * a.d
Neg(a) == Rat(-a.n, a.d)
Zero == Rat(0, 1)

\* ----------------------------------------------------------- the endpoints
RECURSIVE Concat(_)
Concat(ss) == IF ss = <<>> THEN <<>> ELSE Head(ss) \o Concat(Tail(ss))

\* A record of page k is <<k, i>>: its page and its place in the page.
PageOfLen(k, n) == [i \in 1..n |-> <<k, i>>]

DataSets ==
  UNION {[1..np -> 0..MaxPageLen] : np \in 1..MaxPages}

\* 'Got ' + n + ' so far...' is Msg("Got # so far...", <<n>>).
Msg(text, args) == [text |-> text, args |-> args]

EmptyObject == [k \in {} |-> Null]

\* The page a token names: '' or an unset token names the first page.
PageIndex(token) == IF token = Null THEN 1 ELSE token + 1

PageRecords(token) == PageOfLen(PageIndex(token), pages[PageIndex(token)])

HasNext(token) == PageIndex(token) < Len(pages)

\* reports/search: {results, nextPageToken?}
ReportPage(token) ==
  IF HasNext(token)
  THEN [results |-> PageRecords(token), nextPageToken |-> PageIndex(token)]
  ELSE [results |-> PageRecords(token)]

\* products list: {resources, nextPageToken?}
ListPage(token) ==
  IF HasNext(token)
  THEN [resources |-> PageRecords(token), nextPageToken |-> PageIndex(token)]
  ELSE [resources |-> PageRecords(token)]

TotalCount == Len(Concat([k \in 1..Len(pages) |-> PageOfLen(k, pages[k])]))

\* googleAds:search: {results?, nextPageToken?, totalResultsCount}; an empty
\* page carries no results member.
SearchPage(token) ==
  LET base == IF HasNext(token)
              THEN [nextPageToken |-> PageIndex(token), totalResultsCount |-> TotalCount]
              ELSE [totalResultsCount |-> TotalCount]
  IN IF PageRecords(token) = <<>> THEN base
     ELSE [f \in DOMAIN base \cup {"results"} |->
             IF f = "results" THEN PageRecords(token) ELSE base[f]]

ErrorResponse(code) == [error |-> [code |-> code, message |-> "error"]]

JsonRaw(obj) == [kind |-> "json", body |-> obj]
\* a body that begins with '<!DOCTYPE html>'
HtmlRaw == [kind |-> "html", body |-> EmptyObject]

\* What the endpoint may answer to a request for the page of `token`.
Answers(page) ==
  {JsonRaw(page), JsonRaw(EmptyObject), HtmlRaw}
    \cup {JsonRaw(ErrorResponse(c)) : c \in ErrorCodes}

\* ------------------------------------------------------- response parsing
\* JSON.parse: throws SyntaxError on a text that is not JSON.
JSONparseThrows(raw) == raw.kind # "json"
JSONparse(raw) == raw.body

\* MerchantCenterAPI.call: return JSON.parse(response.getContentText())
callThrows(raw) == JSONparseThrows(raw)
call(raw) == JSONparse(raw)

\* getResultFrom without its check of the HTML marker.
getResultFromNoHtmlCheck(raw) == JSONparseThrows(raw)

\* GoogleAdsApi.getResultFrom
getResultFromThrows(raw) ==
  IF raw.kind = "html" THEN FALSE ELSE JSONparseThrows(raw)
getResultFrom(raw) ==
  IF raw.kind = "html" THEN EmptyObject ELSE JSONparse(raw)

\* ------------------------------------------------------------------- Init
\* No fetch under way.
IdleFetch ==
  /\ fn = "none" /\ apiHasList = FALSE /\ countOnly = FALSE /\ pages = <<>>
  /\ pageToken = EmptyToken /\ fullResults = <<>> /\ nTries = 0
  /\ optionsPageToken = Null /\ resultRecords = <<>> /\ resultCount = Null
  /\ status = "running" /\ thrown = Msg("", <<>>) /\ retval = <<>>
  /\ logs = <<>> /\ requests = <<>> /\ raws = <<>>

\* The rules of the default sheet: below -5%, at +-5%, above 8%.
DefaultRules ==
  /\ BELOW_BENCHMARK_RULE = Rat(-5, PercentDivisor)
  /\ AT_BENCHMARK_RULE = Rat(5, PercentDivisor)
  /\ ABOVE_BENCHMARK_RULE = Rat(8, PercentDivisor)

\* flatten not called: the caller holds an object of no members.
IdleFlatten ==
  /\ nested = [obj |-> <<>>] /\ passed = [obj |-> <<>>]
  /\ flattened = [k \in {} |-> -1] /\ flattenDone = FALSE

\* constants.js: const BATCH_SIZE = 1000;
BATCH_SIZE == 1000

\* runVisibilityBooster not called.
IdleRun ==
  /\ runAt = "none" /\ runStatus = "idle"
  /\ merchantIdBound = TRUE /\ LogBound = TRUE
  /\ benchmarkPages = <<>> /\ statPages = <<>> /\ batch_size = BATCH_SIZE
  /\ offerList = <<>> /\ batchAt = 0 /\ responses = <<>> /\ batchRequests = <<>>
  /\ batchResponses = <<>>

\* calculateLabel not called.
IdleLabel ==
  /\ relativePrice = Zero /\ custom_label = "" /\ labelled = FALSE

\* The sheets as an earlier run left them.
BENCHMARK_SHEET == "benchmark data"
OUTPUT_SHEET == "output - supplemental feed"
RANGE_BENCHMARK == "updatedAt.benchmark"
RANGE_OUTPUT == "updatedAt.output"
StaleRows == << <<"stale">>, <<"stale">>, <<"stale">>, <<"stale">> >>

\* const EXPORT_LABELS = []; labels.forEach(row => { if (row[0]) push(row[1]) })
exportLabelsOf(rows) ==
  LET checked == SelectSeq(rows, LAMBDA row : row[1])
  IN [k \in 1..Len(checked) |-> checked[k][2]]

\* An object of no members.
NoProducts == [k \in {} |-> Null]

\* mergeData not called, on the default configuration.
IdleMerge ==
  /\ STOCK_ENABLED = FALSE /\ STOCK_THRESHOLD = 0 /\ ACTIVATE_LABELS = FALSE
  /\ EXPORT_LABELS = <<>>
  /\ benchmarkData = <<>> /\ productData = NoProducts /\ statsData = [null |-> TRUE]
  /\ output = <<>> /\ supplemental_feed = <<>> /\ emitted = <<>>
  /\ mergeStatus = "idle"
  /\ sheets = [n \in {BENCHMARK_SHEET, OUTPUT_SHEET} |-> StaleRows]
  /\ updatedAt = [r \in {RANGE_BENCHMARK, RANGE_OUTPUT} |-> FALSE]
  /\ sheetOps = <<>>

InitFetch ==
  /\ DefaultRules /\ IdleLabel /\ IdleMerge /\ IdleFlatten /\ IdleRun
  /\ fn \in {"downloadReport", "getProductList", "executeSearch"}
  /\ apiHasList \in IF fn = "getProductList" THEN BOOLEAN ELSE {FALSE}
  /\ countOnly \in IF fn = "executeSearch" THEN BOOLEAN ELSE {FALSE}
  /\ pages \in DataSets
  /\ pageToken = EmptyToken
  /\ fullResults = <<>>
  /\ nTries = 0
  /\ optionsPageToken = Null
  /\ resultRecords = <<>>
  /\ resultCount = Null
  /\ status = "running"
  /\ thrown = Msg("", <<>>)
  /\ retval = <<>>
  /\ logs = <<>>
  /\ requests = <<>>
  /\ raws = <<>>

\* ----------------------------------------------------------- downloadReport
\* throw new Error('Internal error getting report. Please try it again later')
downloadReportError(results) ==
  Msg("Internal error getting report. Please try it again later", <<>>)

\* Every server error (5xx) taken for the internal error.
isServerError(code) == code >= InternalError

\* Every error taken for the internal error.
isAnyError(code) == TRUE

\* if (response.error.code == 500)
isInternalError(code) == code = InternalError

\* The retry budget off by one: a retry too many.
mayRetryOffByOne(n) == n <= maxTries

\* No retry budget at all.
mayRetryAlways(n) == TRUE

\* if (nTries < maxTries): the retry budget
mayRetry(n) == n < maxTries

\* The retry counter set back to 0 by every page received.
triesResetAfterPage(n) == 0

\* nTries after a page: the branch of response.results leaves it alone
triesAfterPage(n) == n

\* A retry that starts the download over.
retryTokenRestart(token) == EmptyToken

\* the token the request after a retried error carries: `continue` leaves it
retryToken(token) == token

\* Logger.log('Final results: ' + fullResults.length + ' rows.'); return fullResults
Finish(results, log) ==
  /\ logs' = Append(log, Msg("Final results: # rows.", <<Len(results)>>))
  /\ retval' = results
  /\ status' = "returned"

\* One iteration of the while loop: the request and the handling of its answer.
downloadReportStep ==
  /\ fn = "downloadReport" /\ status = "running" /\ pageToken # Null
  /\ \E raw \in Answers(ReportPage(pageToken)) :
       /\ requests' = Append(requests, pageToken)
       /\ raws' = Append(raws, raw)
       /\ IF callThrows(raw)
          THEN /\ status' = "SyntaxError"
               /\ UNCHANGED <<pageToken, fullResults, nTries, thrown, retval, logs>>
          ELSE LET response == call(raw) IN
            IF "results" \in DOMAIN response
            THEN /\ pageToken' = IF "nextPageToken" \in DOMAIN response
                                 THEN response.nextPageToken ELSE Null
                 /\ fullResults' = fullResults \o response.results
                 /\ nTries' = triesAfterPage(nTries)
                 /\ UNCHANGED <<status, thrown, retval, logs>>
            ELSE IF "error" \in DOMAIN response
            THEN LET log == Append(logs, Msg("Error(#): #",
                                   <<response.error.code, response.error.message>>))
                 IN
                 IF isInternalError(response.error.code)
                 THEN IF mayRetry(nTries)
                      THEN /\ logs' = Append(log, Msg("Internal error. Trying again ##",
                                                      <<nTries + 1>>))
                           /\ nTries' = nTries + 1
                           /\ pageToken' = retryToken(pageToken)
                           /\ UNCHANGED <<fullResults, status, thrown, retval>>
                      ELSE /\ status' = "Error"
                           /\ thrown' = downloadReportError(fullResults)
                           /\ logs' = log
                           /\ UNCHANGED <<pageToken, fullResults, nTries, retval>>
                 ELSE /\ Finish(fullResults, log)
                      /\ UNCHANGED <<pageToken, fullResults, nTries, thrown>>
            ELSE /\ Finish(fullResults, logs)
                 /\ UNCHANGED <<pageToken, fullResults, nTries, thrown>>
  /\ UNCHANGED <<runVars, flattenVars, ruleVars, labelVars, configVars, mergeVars>>
  /\ UNCHANGED <<fn, apiHasList, countOnly, pages, optionsPageToken,
                 resultRecords, resultCount>>

\* while (pageToken != null) fails: the code after the loop
downloadReportReturn ==
  /\ fn = "downloadReport" /\ status = "running" /\ pageToken = Null
  /\ Finish(fullResults, logs)
  /\ UNCHANGED <<runVars, flattenVars, ruleVars, labelVars, configVars, mergeVars>>
  /\ UNCHANGED <<fn, apiHasList, countOnly, pages, pageToken, fullResults, nTries,
                 optionsPageToken, resultRecords, resultCount, thrown, requests, raws>>

\* ----------------------------------------------------------- getProductList
\* Logger.log('Got ' + fullResults.length + ' so far...')
getProductListLog(results) == Msg("Got # so far...", <<Len(results)>>)

\* The Error with the count of the records so far in its message.
getProductListErrorWithCount(results) ==
  Msg("Internal error when getting report (# so far). Please try it again",
      <<Len(results)>>)

\* throw new Error('Internal error when getting report. Please try it again')
getProductListError(results) ==
  Msg("Internal error when getting report. Please try it again", <<>>)

\* The first evaluation of api.list_products(...) on an api object that has no
\* such method (MerchantCenterAPI names it listProducts): a TypeError, before
\* any request is sent.
getProductListNoMethod ==
  /\ fn = "getProductList" /\ status = "running" /\ pageToken # Null
  /\ ~apiHasList
  /\ status' = "TypeError"
  /\ UNCHANGED <<runVars, flattenVars, ruleVars, labelVars, configVars, mergeVars>>
  /\ UNCHANGED <<fn, apiHasList, countOnly, pages, pageToken, fullResults, nTries,
                 optionsPageToken, resultRecords, resultCount, thrown, retval,
                 logs, requests, raws>>

\* One iteration of the while loop, on an api object that has list_products.
getProductListStep ==
  /\ fn = "getProductList" /\ status = "running" /\ pageToken # Null
  /\ apiHasList
  /\ \E raw \in Answers(ListPage(pageToken)) :
       /\ requests' = Append(requests, pageToken)
       /\ raws' = Append(raws, raw)
       /\ IF callThrows(raw)
          THEN /\ status' = "SyntaxError"
               /\ UNCHANGED <<pageToken, fullResults, thrown, retval, logs>>
          ELSE LET response == call(raw) IN
            IF "resources" \in DOMAIN response
            THEN /\ pageToken' = IF "nextPageToken" \in DOMAIN response
                                 THEN response.nextPageToken ELSE Null
                 /\ fullResults' = fullResults \o response.resources
                 /\ UNCHANGED <<status, thrown, retval, logs>>
            ELSE IF "error" \in DOMAIN response
            THEN LET log == Append(logs, Msg("Error(#): #",
                                   <<response.error.code, response.error.message>>))
                 IN
                 IF isInternalError(response.error.code)
                 THEN /\ logs' = Append(log, getProductListLog(fullResults))
                      /\ status' = "Error"
                      /\ thrown' = getProductListError(fullResults)
                      /\ UNCHANGED <<pageToken, fullResults, retval>>
                 ELSE /\ Finish(fullResults, log)
                      /\ UNCHANGED <<pageToken, fullResults, thrown>>
            ELSE /\ Finish(fullResults, logs)
                 /\ UNCHANGED <<pageToken, fullResults, thrown>>
  /\ UNCHANGED <<runVars, flattenVars, ruleVars, labelVars, configVars, mergeVars>>
  /\ UNCHANGED <<fn, apiHasList, countOnly, pages, nTries, optionsPageToken,
                 resultRecords, resultCount>>

\* while (pageToken != null) fails: the code after the loop
getProductListReturn ==
  /\ fn = "getProductList" /\ status = "running" /\ pageToken = Null
  /\ Finish(fullResults, logs)
  /\ UNCHANGED <<runVars, flattenVars, ruleVars, labelVars, configVars, mergeVars>>
  /\ UNCHANGED <<fn, apiHasList, countOnly, pages, pageToken, fullResults, nTries,
                 optionsPageToken, resultRecords, resultCount, thrown, requests, raws>>

\* ------------------------------------------------ GoogleAdsApi.executeSearch
\* One iteration of the do-while loop: post, getResultFrom, and the handling
\* of the result.
executeSearchStep ==
  /\ fn = "executeSearch" /\ status = "running"
  /\ \E raw \in Answers(SearchPage(optionsPageToken)) :
       /\ requests' = Append(requests, optionsPageToken)
       /\ raws' = Append(raws, raw)
       /\ IF getResultFromThrows(raw)
          THEN /\ status' = "SyntaxError"
               /\ UNCHANGED <<optionsPageToken, resultRecords, resultCount,
                              thrown, retval>>
          ELSE LET result == getResultFrom(raw) IN
            IF "error" \in DOMAIN result
            THEN \* throw new Error(JSON.stringify(result.error))
                 /\ status' = "Error"
                 /\ thrown' = Msg("#", <<result.error.code>>)
                 /\ UNCHANGED <<optionsPageToken, resultRecords, resultCount, retval>>
            ELSE LET results == IF "results" \in DOMAIN result
                                THEN result.results ELSE <<>>
                     count == IF "totalResultsCount" \in DOMAIN result
                              THEN result.totalResultsCount ELSE Null
                     records == resultRecords \o results
                 IN /\ resultCount' = count
                    /\ resultRecords' = records
                    /\ IF countOnly \/ "nextPageToken" \notin DOMAIN result
                       THEN /\ retval' = [count |-> count, records |-> records]
                            /\ status' = "returned"
                            /\ UNCHANGED optionsPageToken
                       ELSE /\ optionsPageToken' = result.nextPageToken
                            /\ UNCHANGED <<retval, status>>
                    /\ UNCHANGED thrown
  /\ UNCHANGED <<runVars, flattenVars, ruleVars, labelVars, configVars, mergeVars>>
  /\ UNCHANGED <<fn, apiHasList, countOnly, pages, pageToken, fullResults,
                 nTries, logs>>

NextFetch ==
  \/ downloadReportStep
  \/ downloadReportReturn
  \/ getProductListNoMethod
  \/ getProductListStep
  \/ getProductListReturn
  \/ executeSearchStep

SpecFetch == InitFetch /\ [][NextFetch]_vars

\* Every fetch is a blocking loop on one thread: a step that can be taken is
\* taken.
FairSpecFetch == SpecFetch /\ WF_vars(NextFetch)

\* ------------------------------------------------- the history of a fetch
Is500(raw) ==
  /\ raw.kind = "json"
  /\ "error" \in DOMAIN raw.body
  /\ raw.body.error.code = InternalError

IsOtherError(raw) ==
  /\ raw.kind = "json"
  /\ "error" \in DOMAIN raw.body
  /\ raw.body.error.code # InternalError

IsHtml(raw) == raw.kind = "html"

\* The result list of an answer that is a page; none for any other answer.
PageResults(raw) ==
  IF raw.kind # "json" THEN <<>>
  ELSE IF "results" \in DOMAIN raw.body THEN raw.body.results
  ELSE IF "resources" \in DOMAIN raw.body THEN raw.body.resources
  ELSE <<>>

IsPage(raw) ==
  raw.kind = "json" /\ DOMAIN raw.body \cap {"results", "resources"} # {}

\* The result lists of the pages among the answers rs, in arrival order.
RECURSIVE Served(_)
Served(rs) == IF rs = <<>> THEN <<>> ELSE PageResults(Head(rs)) \o Served(Tail(rs))

AllRecords == Concat([k \in 1..Len(pages) |-> PageOfLen(k, pages[k])])

Last(s) == s[Len(s)]

\* ------------------------------------------------------------------ claims

\* C1: downloadReport answered with 3 consecutive code-500 errors and then a
\* page goes on (3 retries made, the page accumulated) and, when every other
\* answer is a page, returns the records of all pages after exactly 3 retries;
\* answered with a 4th consecutive code-500 error it has thrown its Error and
\* returned nothing.
C1_ThreeRetriesThenFatal ==
  fn = "downloadReport" =>
    \A i \in 1..Len(raws) :
      (i + 3 <= Len(raws) /\ \A j \in i..(i + 2) : Is500(raws[j])) =>
        /\ IsPage(raws[i + 3]) =>
             /\ nTries = 3
             /\ requests[i + 3] = requests[i]
             /\ Len(raws) = i + 3 =>
                  /\ status \in {"running", "returned"}
                  /\ status = "returned" => pageToken = Null
                  /\ fullResults = Served(SubSeq(raws, 1, i - 1)) \o PageResults(raws[i + 3])
             /\ (status = "returned" /\ \A j \in 1..Len(raws) :
                                           j \notin i..(i + 2) => IsPage(raws[j]))
                  => /\ retval = AllRecords
                     /\ Len(requests) = Len(pages) + 3
        /\ Is500(raws[i + 3]) =>
             /\ Len(raws) = i + 3
             /\ status = "Error"
             /\ retval = <<>>

C1_Witness ==
  /\ fn = "downloadReport" /\ status = "returned" /\ Len(pages) = 2
  /\ Len(raws) = 5
  /\ IsPage(raws[1]) /\ Is500(raws[2]) /\ Is500(raws[3]) /\ Is500(raws[4])
  /\ IsPage(raws[5])
  /\ retval = AllRecords /\ Len(retval) = 2

\* C2: downloadReport's accumulated list is at every moment the concatenation,
\* in arrival order, of the result lists of the pages answered so far, each
\* once, and that is what it returns; the request after a code-500 answer
\* carries the page token of the failed request, and no page token is answered
\* with a page twice.
C2_ConcatenationOfPages ==
  fn = "downloadReport" =>
    /\ fullResults = Served(raws)
    /\ status = "returned" => retval = Served(raws)
    /\ \A i \in 1..Len(raws) :
         (Is500(raws[i]) /\ i < Len(requests)) => requests[i + 1] = requests[i]
    /\ \A i, j \in 1..Len(raws) :
         (i < j /\ IsPage(raws[i]) /\ IsPage(raws[j])) => requests[i] # requests[j]

C2_Witness ==
  /\ fn = "downloadReport" /\ status = "returned"
  /\ Len(raws) = 4
  /\ IsPage(raws[1]) /\ Is500(raws[2]) /\ IsPage(raws[3]) /\ IsPage(raws[4])
  /\ requests = <<EmptyToken, 1, 1, 2>>
  /\ Len(retval) = 3

\* C3: against an endpoint of finitely many pages that may answer any request
\* with an error, downloadReport terminates (returns or throws): every
\* iteration lowers a measure bounded below, the pages left plus the retries
\* left, so no run issues requests forever.
downloadReportMeasure ==
  IF status # "running" THEN 0
  ELSE 1 + (maxTries - nTries)
         + (IF pageToken = Null THEN 0 ELSE Len(pages) - PageIndex(pageToken) + 1)

C3_Terminates ==
  /\ <>(fn = "downloadReport" => status # "running")
  /\ [](fn = "downloadReport" => downloadReportMeasure >= 0)
  /\ [][fn = "downloadReport" => downloadReportMeasure' < downloadReportMeasure]_vars

C3_Witness ==
  /\ fn = "downloadReport" /\ status = "Error"
  /\ Len(raws) = Len(pages) + maxTries
  /\ nTries = maxTries

C5_ListNoRetry ==
  fn = "getProductList" =>
    \A i \in 1..Len(raws) :
      /\ Is500(raws[i]) =>
           /\ i = Len(raws)
           /\ status = "Error"
           /\ thrown.text = "Internal error when getting report. Please try it again"
           /\ retval = <<>>
      /\ IsOtherError(raws[i]) =>
           /\ i = Len(raws)
           /\ status = "returned"
           /\ thrown = Msg("", <<>>)
           /\ retval = Served(SubSeq(raws, 1, i - 1))
      /\ \A j \in 1..Len(raws) : i < j => requests[i] # requests[j]

C5_Witness ==
  /\ fn = "getProductList" /\ status = "Error"
  /\ Len(raws) = 2 /\ IsPage(raws[1]) /\ Is500(raws[2])
  /\ Len(fullResults) = 1

\* C6 (as claimed): the Error a fetch throws on a code-500 answer it does not
\* retry carries the number of records accumulated so far.
C6_ErrorCarriesCount ==
  (fn \in {"downloadReport", "getProductList"} /\ status = "Error") =>
    \E k \in DOMAIN thrown.args : thrown.args[k] = Len(fullResults)

\* C6 (amended): that Error carries a fixed text and no count; getProductList
\* writes the count of the records accumulated so far to the log right before
\* throwing, and downloadReport's last log entry is the error's code and
\* message, without a count.
C6_CountLoggedNotCarried ==
  (fn \in {"downloadReport", "getProductList"} /\ status = "Error") =>
    /\ thrown.args = <<>>
    /\ thrown.text \in
         {"Internal error getting report. Please try it again later",
          "Internal error when getting report. Please try it again"}
    /\ fn = "getProductList" =>
         /\ Last(logs).text = "Got # so far..."
         /\ Last(logs).args = <<Len(fullResults)>>
    /\ fn = "downloadReport" => Last(logs).text = "Error(#): #"

C6_Witness ==
  /\ fn = "getProductList" /\ status = "Error"
  /\ Len(fullResults) = 2
  /\ Last(logs) = Msg("Got # so far...", <<2>>)

\* C7 (as claimed): whatever the endpoint call, a raw response that begins
\* with the HTML marker ends the fetch normally with the records accumulated
\* so far.
C7_HtmlIsEmptyObject ==
  \A i \in 1..Len(raws) :
    IsHtml(raws[i]) =>
      /\ i = Len(raws)
      /\ status = "returned"

\* C7 (amended): a GoogleAdsApi call (getResultFrom, under executeSearch)
\* treats such a response as {} and executeSearch returns the records
\* accumulated so far with no error; a MerchantCenterAPI call hands it to
\* JSON.parse, and downloadReport and getProductList end with its SyntaxError
\* and return nothing.
C7_HtmlByApi ==
  \A i \in 1..Len(raws) :
    IsHtml(raws[i]) =>
      /\ i = Len(raws)
      /\ fn = "executeSearch" =>
           /\ status = "returned"
           /\ thrown = Msg("", <<>>)
           /\ retval.records = Served(SubSeq(raws, 1, i - 1))
      /\ fn # "executeSearch" =>
           /\ status = "SyntaxError"
           /\ retval = <<>>

C7_Witness ==
  /\ fn = "executeSearch" /\ status = "returned"
  /\ Len(raws) = 2 /\ IsPage(raws[1]) /\ IsHtml(raws[2])
  /\ Len(retval.records) = 1

\* ========================================================= Label classifier
\* The label names of the default sheet.
BELOW_BENCHMARK_NAME == "below"
AT_BENCHMARK_NAME == "at"
ABOVE_BENCHMARK_NAME == "above"

\* A sheet cell holding a rule: a number, or a text such as '±5%' whose
\* number (Number(text.replace('±', '').replace('%', ''))) is `value`.
NumberCell(v) == [type |-> "number", value |-> v]
TextCell(v) == [type |-> "text", value |-> v]

\* if (BELOW_BENCHMARK_RULE > 0) BELOW_BENCHMARK_RULE *= -1
normalizeBelow(cell) ==
  IF Less(Zero, cell.value) THEN Neg(cell.value) ELSE cell.value

\* if (isNaN(raw)) { raw = Number(...); if (raw > 1 || raw < 1) raw = raw / 100 }
\* if (raw < 0) raw *= -1
normalizeAt(cell) ==
  LET v == cell.value
      parsed == IF cell.type = "text"
                THEN IF Less(Rat(1, 1), v) \/ Less(v, Rat(1, 1))
                     THEN Rat(v.n, v.d * PercentDivisor)
                     ELSE v
                ELSE v
  IN IF Less(parsed, Zero) THEN Neg(parsed) ELSE parsed

\* const ABOVE_BENCHMARK_RULE = ...getValue(): taken as it is
normalizeAbove(cell) == cell.value

\* Rules between -MaxRule% and MaxRule%, relative prices between -MaxRel% and
\* MaxRel%, and the relative prices around 100% (the at rule of the text '1%').
MaxRule == 3
MaxRel == 4

RuleCells == {NumberCell(Rat(k, PercentDivisor)) : k \in (-MaxRule)..MaxRule}
AtCells == RuleCells \cup {TextCell(Rat(k, 1)) : k \in (-MaxRule)..MaxRule}
RelativePrices ==
  {Rat(k, PercentDivisor) : k \in (-MaxRel)..MaxRel}
    \cup {Rat(PercentDivisor + k, PercentDivisor) : k \in {-1, 0, 1}}
    \cup {Rat(-PercentDivisor + k, PercentDivisor) : k \in {-1, 0, 1}}

\* calculateLabel with the at rule tried before the below rule.
calculateLabelAtFirst(price) ==
  IF LessEq(Neg(AT_BENCHMARK_RULE), price) /\ Less(price, AT_BENCHMARK_RULE)
  THEN AT_BENCHMARK_NAME
  ELSE IF Less(price, BELOW_BENCHMARK_RULE) THEN BELOW_BENCHMARK_NAME
  ELSE IF Less(ABOVE_BENCHMARK_RULE, price) THEN ABOVE_BENCHMARK_NAME
  ELSE ""

calculateLabel(price) ==
  IF Less(price, BELOW_BENCHMARK_RULE) THEN BELOW_BENCHMARK_NAME
  ELSE IF LessEq(Neg(AT_BENCHMARK_RULE), price) /\ Less(price, AT_BENCHMARK_RULE)
  THEN AT_BENCHMARK_NAME
  ELSE IF Less(ABOVE_BENCHMARK_RULE, price) THEN ABOVE_BENCHMARK_NAME
  ELSE ""

InitLabel ==
  /\ IdleFetch /\ IdleMerge /\ IdleFlatten /\ IdleRun
  /\ BELOW_BENCHMARK_RULE \in {normalizeBelow(c) : c \in RuleCells}
  /\ AT_BENCHMARK_RULE \in {normalizeAt(c) : c \in AtCells}
  /\ ABOVE_BENCHMARK_RULE \in {normalizeAbove(c) : c \in RuleCells}
  /\ relativePrice \in RelativePrices
  /\ custom_label = ""
  /\ labelled = FALSE

calculateLabelCall ==
  /\ fn = "none" /\ ~labelled
  /\ custom_label' = calculateLabel(relativePrice)
  /\ labelled' = TRUE
  /\ UNCHANGED <<fetchVars, runVars, flattenVars, ruleVars, relativePrice, configVars, mergeVars>>

NextLabel == calculateLabelCall

SpecLabel == InitLabel /\ [][NextLabel]_vars

\* C8: with the below rule <= 0 and the at rule >= 0 (as the configuration
\* leaves them), calculateLabel answers by the ordered rules: below if the
\* price is under the below rule; else at if it lies in [-at, at); else above
\* if it is over the above rule; else the empty label.  So below wins where
\* the below and at bands overlap, at wins over above when at > above, and
\* with at < above every price in [at, above] gets the empty label.
InAtBand == LessEq(Neg(AT_BENCHMARK_RULE), relativePrice)
              /\ Less(relativePrice, AT_BENCHMARK_RULE)
UnderBelow == Less(relativePrice, BELOW_BENCHMARK_RULE)
OverAbove == Less(ABOVE_BENCHMARK_RULE, relativePrice)

C8_OrderedRules ==
  /\ LessEq(BELOW_BENCHMARK_RULE, Zero)
  /\ LessEq(Zero, AT_BENCHMARK_RULE)
  /\ labelled =>
       /\ UnderBelow => custom_label = BELOW_BENCHMARK_NAME
       /\ (~UnderBelow /\ InAtBand) => custom_label = AT_BENCHMARK_NAME
       /\ (~UnderBelow /\ ~InAtBand /\ OverAbove) => custom_label = ABOVE_BENCHMARK_NAME
       /\ (~UnderBelow /\ ~InAtBand /\ ~OverAbove) => custom_label = ""
       /\ (UnderBelow /\ InAtBand) => custom_label = BELOW_BENCHMARK_NAME
       /\ (InAtBand /\ OverAbove /\ ~UnderBelow) => custom_label = AT_BENCHMARK_NAME
       /\ (LessEq(Zero, ABOVE_BENCHMARK_RULE)
           /\ Less(AT_BENCHMARK_RULE, ABOVE_BENCHMARK_RULE)
           /\ LessEq(AT_BENCHMARK_RULE, relativePrice)
           /\ LessEq(relativePrice, ABOVE_BENCHMARK_RULE)) => custom_label = ""

\* The gap: at 1%, above 3%, a price of 2% gets no label.
C8_Witness ==
  /\ labelled
  /\ Less(AT_BENCHMARK_RULE, ABOVE_BENCHMARK_RULE)
  /\ Less(Zero, AT_BENCHMARK_RULE)
  /\ Less(AT_BENCHMARK_RULE, relativePrice)
  /\ Less(relativePrice, ABOVE_BENCHMARK_RULE)
  /\ custom_label = ""

\* ===================================================== Structural flattener
\* A JavaScript value is Leaf(v), a scalar or an array, or Obj(members), a
\* plain object: its members <<key, value>> in insertion order.
Leaf(v) == [val |-> v]
Obj(members) == [obj |-> members]

\* typeof value === 'object' && !!value && !Array.isArray(value)
IsObject(value) == "obj" \in DOMAIN value

\* Object.assign({}, ...sources) on flat mappings: a later source wins.
RECURSIVE AssignAll(_)
AssignAll(sources) ==
  IF sources = <<>> THEN [k \in {} |-> Null]
  ELSE LET n == Len(sources)
       IN sources[n] @@ AssignAll(SubSeq(sources, 1, n - 1))

\* `${field}.${subField}`
Join(field, subField) == field \o "." \o subField

\* The template with the separator left out.
subFieldPathNoDot(field, subField) ==
  IF field # "" THEN field \o subField ELSE subField

\* field ? `${field}.${subField}` : `${subField}`
subFieldPath(field, subField) ==
  IF field # "" THEN Join(field, subField) ELSE subField

\* flattenHelper as a source of Object.assign: the mapping from dotted paths
\* to leaves.  A scalar reached with an empty field (under the key '') is
\* returned as it is, and Object.assign copies no member from a number.
RECURSIVE flattenHelper(_, _)
flattenHelper(value, field) ==
  IF IsObject(value)
  THEN AssignAll([i \in 1..Len(value.obj) |->
                    flattenHelper(value.obj[i][2],
                                  subFieldPath(field, value.obj[i][1]))])
  ELSE IF field # "" THEN field :> value.val
  ELSE [k \in {} |-> Null]

\* flatten(src): flattenHelper(src) with no field; a scalar src is returned
\* unchanged.
flatten(src) == IF IsObject(src) THEN flattenHelper(src, "") ELSE src.val

\* ------------------------------------------------- the objects flattened
\* The caller builds an object of at most MaxMembers members in all, nested
\* at most MaxDepth objects deep, and passes it to flatten.
MaxDepth == 2
MaxMembers == 3

\* Own keys: plain ones, one that holds a dot, and the empty key.
Keys == {"a", "b", "a.b", ""}
LeafValues == {1, 2}

KeysOf(value) == {value.obj[i][1] : i \in 1..Len(value.obj)}

\* The value at a path: the places of the members to go through.
RECURSIVE ValueAt(_, _)
ValueAt(value, path) ==
  IF path = <<>> THEN value ELSE ValueAt(value.obj[Head(path)][2], Tail(path))

\* The paths of the objects in a value.
RECURSIVE ObjectPaths(_)
ObjectPaths(value) ==
  IF ~IsObject(value) THEN {}
  ELSE {<<>>} \cup UNION {{<<i>> \o path : path \in ObjectPaths(value.obj[i][2])} :
                          i \in 1..Len(value.obj)}

\* The members of a value and of the objects in it.
MemberCount(value) ==
  Cardinality({path \in ObjectPaths(value) : path # <<>>})
    + Cardinality({pm \in UNION {{<<path, i>> : i \in 1..Len(ValueAt(value, path).obj)} :
                                   path \in ObjectPaths(value)} :
                     ~IsObject(ValueAt(value, pm[1]).obj[pm[2]][2])})

\* object[key] = member, on the object at a path, for a key it has not
RECURSIVE WithMember(_, _, _, _)
WithMember(value, path, key, member) ==
  IF path = <<>> THEN Obj(Append(value.obj, <<key, member>>))
  ELSE Obj([value.obj EXCEPT ![Head(path)] =
              <<@[1], WithMember(@[2], Tail(path), key, member)>>])

\* What a member of an object at the given depth may be.
NewMembers(depth) ==
  {Leaf(v) : v \in LeafValues} \cup (IF depth < MaxDepth THEN {Obj(<<>>)} ELSE {})

InitFlatten ==
  /\ DefaultRules /\ IdleLabel /\ IdleMerge /\ IdleRun
  /\ fn = "flatten" /\ apiHasList = FALSE /\ countOnly = FALSE /\ pages = <<>>
  /\ pageToken = EmptyToken /\ fullResults = <<>> /\ nTries = 0
  /\ optionsPageToken = Null /\ resultRecords = <<>> /\ resultCount = Null
  /\ status = "running" /\ thrown = Msg("", <<>>) /\ retval = <<>>
  /\ logs = <<>> /\ requests = <<>> /\ raws = <<>>
  /\ nested = Obj(<<>>) /\ passed = Obj(<<>>)
  /\ flattened = [k \in {} |-> Null] /\ flattenDone = FALSE

\* The caller adds a member to its object or to an object in it.
assignMember ==
  /\ fn = "flatten" /\ ~flattenDone
  /\ MemberCount(nested) < MaxMembers
  /\ \E path \in ObjectPaths(nested) :
       \E key \in Keys \ KeysOf(ValueAt(nested, path)) :
         \E member \in NewMembers(Len(path) + 1) :
           nested' = WithMember(nested, path, key, member)
  /\ UNCHANGED <<passed, flattened, flattenDone>>
  /\ UNCHANGED <<fetchVars, runVars, ruleVars, labelVars, configVars, mergeVars>>

\* const flattened = flatten(nested): flatten writes to no member of its
\* argument (Object.assign's target is a new {}).
flattenCall ==
  /\ fn = "flatten" /\ ~flattenDone
  /\ passed' = nested
  /\ flattened' = flatten(nested)
  /\ flattenDone' = TRUE
  /\ UNCHANGED nested
  /\ UNCHANGED <<fetchVars, runVars, ruleVars, labelVars, configVars, mergeVars>>

NextFlatten == assignMember \/ flattenCall

SpecFlatten == InitFlatten /\ [][NextFlatten]_vars

\* ------------------------------------------------ rebuilding from the keys
\* The segments of dotted keys: the keys that hold no dot.
Segments == {key \in Keys : key # "a.b"}

\* The dotted key of a sequence of segments.
RECURSIVE JoinAll(_)
JoinAll(segments) ==
  IF Len(segments) = 1 THEN segments[1]
  ELSE Join(JoinAll(SubSeq(segments, 1, Len(segments) - 1)), segments[Len(segments)])

\* A flattened key is at most MaxDepth own keys of at most two segments.
DottedKeys ==
  {<<JoinAll(segments), segments>> :
     segments \in UNION {[1..n -> Segments] : n \in 1..(2 * MaxDepth)}}

\* A dotted key split at its dots (a key that is no dotted key of segments
\* is one segment).
Split(key) ==
  IF \E dk \in DottedKeys : dk[1] = key
  THEN (CHOOSE dk \in DottedKeys : dk[1] = key)[2]
  ELSE <<key>>

\* The nested mapping of a set of <<segments, leaf>>: a segment leads to the
\* leaf whose path ends at it, or to the mapping of the paths that go on.
RECURSIVE Rebuild(_)
Rebuild(entries) ==
  [segment \in {e[1][1] : e \in entries} |->
     LET under == {<<Tail(e[1]), e[2]>> : e \in {x \in entries : x[1][1] = segment}}
         deeper == {e \in under : e[1] # <<>>}
     IN IF deeper = {} THEN Leaf((CHOOSE e \in under : TRUE)[2])
        ELSE Rebuild(deeper)]

unflatten(mapping) ==
  Rebuild({<<Split(key), mapping[key]>> : key \in DOMAIN mapping})

\* A nested object as a mapping: key -> leaf or mapping.
RECURSIVE AsMapping(_)
AsMapping(value) ==
  IF ~IsObject(value) THEN value
  ELSE [key \in KeysOf(value) |->
          AsMapping((CHOOSE m \in {value.obj[i] : i \in 1..Len(value.obj)} : m[1] = key)[2])]

\* No own key of the value, at any depth, is empty or holds a dot, and no
\* member is an object of no members.
RECURSIVE PlainKeyed(_)
PlainKeyed(value) ==
  ~IsObject(value) \/
    \A i \in 1..Len(value.obj) :
      /\ value.obj[i][1] \in Segments \ {""}
      /\ value.obj[i][2] # Obj(<<>>)
      /\ PlainKeyed(value.obj[i][2])

MicrosPerUnit == 1000000

\* A row of the price benchmark report (reports/search on
\* PriceCompetitivenessProductView).
BenchmarkRow(id, offerId, priceMicros, benchmarkPriceMicros) ==
  Obj(<< <<"productView",
           Obj(<< <<"id", Leaf(id)>>, <<"offerId", Leaf(offerId)>>,
                  <<"title", Leaf("T")>>, <<"brand", Leaf("B")>>,
                  <<"priceMicros", Leaf(priceMicros)>>,
                  <<"currencyCode", Leaf("USD")>> >>)>>,
         <<"priceCompetitiveness",
           Obj(<< <<"countryCode", Leaf("US")>>,
                  <<"benchmarkPriceMicros", Leaf(benchmarkPriceMicros)>>,
                  <<"benchmarkPriceCurrencyCode", Leaf("USD")>> >>)>> >>)

\* A custom attribute value: the empty text, a text that is no number, or the
\* text of a number.
EmptyText == [kind |-> "empty", n |-> 0]
WordText == [kind |-> "word", n |-> 0]
NumberText(n) == [kind |-> "number", n |-> n]

\* isNaN(stockInfo) || stockInfo == ''
isNaNOrEmpty(stockInfo) == stockInfo.kind \in {"word", "empty"}

\* The threshold test made strict: a stock equal to the threshold fails.
checkStockStrict(stockInfo) ==
  LET info == IF isNaNOrEmpty(stockInfo) THEN 0 ELSE stockInfo.n
  IN ~STOCK_ENABLED \/ info > STOCK_THRESHOLD

checkStock(stockInfo) ==
  LET info == IF isNaNOrEmpty(stockInfo) THEN 0 ELSE stockInfo.n
  IN IF ~STOCK_ENABLED THEN TRUE
     ELSE IF STOCK_ENABLED /\ info >= STOCK_THRESHOLD THEN TRUE
     ELSE IF STOCK_ENABLED /\ info < STOCK_THRESHOLD THEN FALSE
     ELSE TRUE

\* The header rows.
CUSTOM_LABEL_COLUMN == "custom_label_0"
STOCK_ATTRIBUTE == "stock"
DetailHeader ==
  LET common == <<"id", "title", "brand", "current_price", "currency", "country",
                  "benchmark_price", "% current vs. benchmark",
                  CUSTOM_LABEL_COLUMN, "impressions", "clicks">>
  IN IF STOCK_ENABLED THEN Append(common, STOCK_ATTRIBUTE) ELSE common
SupplementalHeader == <<"id", CUSTOM_LABEL_COLUMN>>

\* The benchmark price test with 0 let through.
benchmarkNotNegative(flatRow) ==
  /\ "priceCompetitiveness.benchmarkPriceMicros" \in DOMAIN flatRow
  /\ flatRow["priceCompetitiveness.benchmarkPriceMicros"] >= 0

\* flatRow['priceCompetitiveness.benchmarkPriceMicros'] > 0
benchmarkPositive(flatRow) ==
  /\ "priceCompetitiveness.benchmarkPriceMicros" \in DOMAIN flatRow
  /\ flatRow["priceCompetitiveness.benchmarkPriceMicros"] > 0

\* productData[flatRow['productView.id']]
hasProduct(flatRow) ==
  /\ "productView.id" \in DOMAIN flatRow
  /\ flatRow["productView.id"] \in DOMAIN productData

\* priceMicros / benchmarkPriceMicros - 1
relativePriceOf(flatRow) ==
  Rat(flatRow["productView.priceMicros"]
        - flatRow["priceCompetitiveness.benchmarkPriceMicros"],
      flatRow["priceCompetitiveness.benchmarkPriceMicros"])

\* The allow-list test passed by every label that has a name.
labelNamed(label) == label # ""

\* EXPORT_LABELS.includes(custom_label)
labelExported(label) == \E k \in 1..Len(EXPORT_LABELS) : EXPORT_LABELS[k] = label

\* The two conditions of mergeData on a row: it is pushed iff both hold.
rowEligible(flatRow) == benchmarkPositive(flatRow) /\ hasProduct(flatRow)

rowExported(flatRow) ==
  LET product == productData[flatRow["productView.id"]]
  IN /\ labelExported(calculateLabel(relativePriceOf(flatRow)))
     /\ product.availability = "in stock"
     /\ checkStock(product.stockQuantity)

\* The rows mergeData pushes for one benchmark row.
SupplementalRow(flatRow) ==
  <<flatRow["productView.offerId"], calculateLabel(relativePriceOf(flatRow))>>

DetailRow(flatRow) ==
  LET offerId == flatRow["productView.offerId"]
      found == offerId \in DOMAIN statsData.map
      impressions == IF found THEN statsData.map[offerId].impressions ELSE 0
      clicks == IF found THEN statsData.map[offerId].clicks ELSE 0
      common ==
        <<offerId, flatRow["productView.title"], flatRow["productView.brand"],
          Rat(flatRow["productView.priceMicros"], MicrosPerUnit),
          flatRow["productView.currencyCode"],
          flatRow["priceCompetitiveness.countryCode"],
          Rat(flatRow["priceCompetitiveness.benchmarkPriceMicros"], MicrosPerUnit),
          relativePriceOf(flatRow), calculateLabel(relativePriceOf(flatRow)),
          impressions, clicks>>
  IN IF STOCK_ENABLED
     THEN Append(common, productData[flatRow["productView.id"]].stockQuantity)
     ELSE common

\* The loop with unshift for push: the rows come out in reverse order.
RECURSIVE forEachRowUnshift(_)
forEachRowUnshift(i) ==
  IF i > Len(benchmarkData)
  THEN [threw |-> FALSE, pushed |-> <<>>, output |-> <<>>, supplemental_feed |-> <<>>]
  ELSE LET flatRow == flatten(benchmarkData[i])
       IN IF ~(rowEligible(flatRow) /\ rowExported(flatRow))
          THEN forEachRowUnshift(i + 1)
          ELSE IF "null" \in DOMAIN statsData
          THEN [threw |-> TRUE, pushed |-> <<>>, output |-> <<>>,
                supplemental_feed |-> <<>>]
          ELSE LET rest == forEachRowUnshift(i + 1)
               IN [threw |-> rest.threw,
                   pushed |-> rest.pushed \o <<i>>,
                   output |-> rest.output \o <<DetailRow(flatRow)>>,
                   supplemental_feed |->
                     rest.supplemental_feed \o <<SupplementalRow(flatRow)>>]

\* benchmarkData.forEach: the rows pushed (their places in benchmarkData, the
\* detail rows and the supplemental rows), up to the row at which
\* statsData[...] throws because statsData is null.
RECURSIVE forEachRow(_)
forEachRow(i) ==
  IF i > Len(benchmarkData)
  THEN [threw |-> FALSE, pushed |-> <<>>, output |-> <<>>, supplemental_feed |-> <<>>]
  ELSE LET flatRow == flatten(benchmarkData[i])
       IN IF ~(rowEligible(flatRow) /\ rowExported(flatRow)) THEN forEachRow(i + 1)
          ELSE IF "null" \in DOMAIN statsData
          THEN [threw |-> TRUE, pushed |-> <<>>, output |-> <<>>,
                supplemental_feed |-> <<>>]
          ELSE LET rest == forEachRow(i + 1)
               IN [threw |-> rest.threw,
                   pushed |-> <<i>> \o rest.pushed,
                   output |-> <<DetailRow(flatRow)>> \o rest.output,
                   supplemental_feed |->
                     <<SupplementalRow(flatRow)>> \o rest.supplemental_feed]

\* The spreadsheet calls of pushToSheets without sheet.clear().
pushToSheetsNoClear(sheetName, data, updatedAtRange) ==
  << [op |-> "setValues", on |-> sheetName, data |-> data],
     [op |-> "setValue", on |-> updatedAtRange, data |-> <<>>] >>

\* pushToSheets(sheetName, data, updatedAtRange): the spreadsheet calls it
\* makes, in order: sheet.clear(), getRange(1, 1, ...).setValues(data),
\* updatedAtRange.setValue(updatedAt)
pushToSheets(sheetName, data, updatedAtRange) ==
  << [op |-> "clear", on |-> sheetName, data |-> <<>>],
     [op |-> "setValues", on |-> sheetName, data |-> data],
     [op |-> "setValue", on |-> updatedAtRange, data |-> <<>>] >>

\* What a sheet holds after a call: clear() empties it, setValues(data) on
\* the range starting at A1 overwrites the first Len(data) rows and keeps
\* the rows below.
sheetAfter(rows, made) ==
  IF made.op = "clear" THEN <<>>
  ELSE IF made.op = "setValues"
  THEN made.data \o SubSeq(rows, Len(made.data) + 1, Len(rows))
  ELSE rows

RECURSIVE sheetsAfter(_, _)
sheetsAfter(held, calls) ==
  IF calls = <<>> THEN held
  ELSE sheetsAfter([n \in DOMAIN held |->
                      IF n = Head(calls).on THEN sheetAfter(held[n], Head(calls))
                      ELSE held[n]],
                   Tail(calls))

\* The named ranges whose timestamp the calls set.
rangesSet(calls) ==
  {calls[k].on : k \in {j \in 1..Len(calls) : calls[j].op = "setValue"}}

\* The log of a call: which method, on which sheet or range.
callName(made) == <<made.op, made.on>>

\* The test of benchmarkData.length with the empty list let through.
hasBenchmarkDataAlways == TRUE

\* benchmarkData.length > 0
hasBenchmarkData == Len(benchmarkData) > 0

\* The supplemental feed pushed whatever ACTIVATE_LABELS holds.
pushesSupplementalAlways == TRUE

\* if (ACTIVATE_LABELS)
pushesSupplemental == ACTIVATE_LABELS

mergeData ==
  /\ fn = "mergeData" /\ mergeStatus = "idle"
  /\ \E loop \in {forEachRow(1)} :
       /\ output' = <<DetailHeader>> \o loop.output
       /\ supplemental_feed' = <<SupplementalHeader>> \o loop.supplemental_feed
       /\ emitted' = loop.pushed
       /\ IF hasBenchmarkData
          THEN IF loop.threw
               THEN /\ mergeStatus' = "TypeError"
                    /\ UNCHANGED <<sheets, updatedAt, sheetOps, logs>>
               ELSE \E calls \in
                         {pushToSheets(BENCHMARK_SHEET, output', RANGE_BENCHMARK)
                            \o (IF pushesSupplemental
                                THEN pushToSheets(OUTPUT_SHEET, supplemental_feed',
                                                  RANGE_OUTPUT)
                                ELSE <<>>)} :
                      /\ mergeStatus' = "returned"
                      /\ sheets' = sheetsAfter(sheets, calls)
                      /\ updatedAt' = [r \in DOMAIN updatedAt |->
                                         updatedAt[r] \/ r \in rangesSet(calls)]
                      /\ sheetOps' = [k \in 1..Len(calls) |-> callName(calls[k])]
                      /\ UNCHANGED logs
          ELSE /\ logs' = Append(logs, Msg("No price benchmark data retrieved", <<>>))
               /\ mergeStatus' = "returned"
               /\ UNCHANGED <<sheets, updatedAt, sheetOps>>
  /\ UNCHANGED <<fn, apiHasList, countOnly, pages, pageToken, fullResults, nTries,
                 optionsPageToken, resultRecords, resultCount, status, thrown,
                 retval, requests, raws>>
  /\ UNCHANGED <<runVars, flattenVars, ruleVars, labelVars, configVars, benchmarkData, productData, statsData>>

\* ------------------------------------------------------------ the inputs
\* At most MaxBench benchmark rows; a stock threshold of 0 or StockThreshold.
MaxBench == 2
StockThreshold == 3

\* Prices at the benchmark (at), 6% over it (no label) and 10% over it (above).
Prices == {1000000, 1060000, 1100000}

OfferOf(id) == IF id = "p1" THEN "o1" ELSE "o2"

BenchmarkRows ==
  {BenchmarkRow("p1", OfferOf("p1"), price, MicrosPerUnit) : price \in Prices}
    \cup {BenchmarkRow("p1", OfferOf("p1"), 1100000, b) : b \in {0, -MicrosPerUnit}}
    \cup {BenchmarkRow("p2", OfferOf("p2"), 1100000, MicrosPerUnit)}

BenchmarkLists == UNION {[1..n -> BenchmarkRows] : n \in 0..MaxBench}

\* What getProducts stores for a product: the stock attribute's value when
\* stock tracking is on ('' otherwise) and the availability.
StockValues(enabled) ==
  IF enabled THEN {EmptyText, WordText, NumberText(StockThreshold - 1),
                   NumberText(StockThreshold)}
  ELSE {EmptyText}

Products(enabled) ==
  [stockQuantity : StockValues(enabled), availability : {"in stock", "out of stock"}]

ProductMaps(enabled) ==
  {[id \in {"p1"} |-> p] : p \in Products(enabled)}
    \cup {[id \in {"p1", "p2"} |->
             IF id = "p1" THEN p
             ELSE [stockQuantity |-> EmptyText, availability |-> "in stock"]] :
          p \in Products(enabled)}

\* What getStats returns: null, or the metrics of the offers that have some.
StatsValues ==
  {[null |-> TRUE],
   [map |-> [o \in {"o1"} |-> [impressions |-> 10, clicks |-> 2]]]}

\* The exportLabels range: a checkbox and a name per row, the last row blank.
ExportRows ==
  {<< <<b, BELOW_BENCHMARK_NAME>>, <<a, AT_BENCHMARK_NAME>>,
      <<v, ABOVE_BENCHMARK_NAME>>, <<e, "">> >> :
     b \in {FALSE}, a \in BOOLEAN, v \in BOOLEAN, e \in BOOLEAN}
\* (no price of Prices is under the below rule: its row stays unchecked)

InitMerge ==
  /\ DefaultRules /\ IdleLabel /\ IdleFlatten /\ IdleRun
  /\ fn = "mergeData" /\ apiHasList = FALSE /\ countOnly = FALSE /\ pages = <<>>
  /\ pageToken = EmptyToken /\ fullResults = <<>> /\ nTries = 0
  /\ optionsPageToken = Null /\ resultRecords = <<>> /\ resultCount = Null
  /\ status = "running" /\ thrown = Msg("", <<>>) /\ retval = <<>>
  /\ logs = <<>> /\ requests = <<>> /\ raws = <<>>
  /\ STOCK_ENABLED \in BOOLEAN
  /\ STOCK_THRESHOLD \in IF STOCK_ENABLED THEN {0, StockThreshold} ELSE {StockThreshold}
  /\ ACTIVATE_LABELS \in BOOLEAN
  /\ EXPORT_LABELS \in {exportLabelsOf(rows) : rows \in ExportRows}
  /\ benchmarkData \in BenchmarkLists
  /\ productData \in ProductMaps(STOCK_ENABLED)
  /\ statsData \in StatsValues
  /\ output = <<>> /\ supplemental_feed = <<>> /\ emitted = <<>>
  /\ mergeStatus = "idle"
  /\ sheets = [n \in {BENCHMARK_SHEET, OUTPUT_SHEET} |-> StaleRows]
  /\ updatedAt = [r \in {RANGE_BENCHMARK, RANGE_OUTPUT} |-> FALSE]
  /\ sheetOps = <<>>

NextMerge == mergeData

SpecMerge == InitMerge /\ [][NextMerge]_vars

\* ----------------------------------------------- the fields of a report row
\* obj.key, on the nested row as the endpoint returned it
Member(value, key) ==
  LET at == CHOOSE i \in 1..Len(value.obj) : value.obj[i][1] = key
  IN value.obj[at][2]

BenchmarkPriceOf(row) ==
  Member(Member(row, "priceCompetitiveness"), "benchmarkPriceMicros").val
ProductIdOf(row) == Member(Member(row, "productView"), "id").val
OfferIdOf(row) == Member(Member(row, "productView"), "offerId").val
PriceOf(row) == Member(Member(row, "productView"), "priceMicros").val

\* The columns of a detail row and of a supplemental row.
DetailOfferId(r) == r[1]
DetailBenchmarkPrice(r) == r[7]
DetailLabel(r) == r[9]
FeedOfferId(r) == r[1]
FeedLabel(r) == r[2]

InExportLabels(label) == label \in {EXPORT_LABELS[k] : k \in 1..Len(EXPORT_LABELS)}

\* C9: mergeData pushes one detail row and one supplemental row per place in
\* `emitted`, and no benchmark row whose benchmarkPriceMicros is <= 0 (even
\* with a product record for it) or whose product id has no product record is
\* among them; every detail row shows a benchmark price above 0.
C9_OnlyPricedKnownProducts ==
  mergeStatus # "idle" =>
    /\ Len(output) = Len(emitted) + 1
    /\ Len(supplemental_feed) = Len(emitted) + 1
    /\ \A k \in 1..Len(emitted) :
         LET row == benchmarkData[emitted[k]]
         IN /\ BenchmarkPriceOf(row) > 0
            /\ ProductIdOf(row) \in DOMAIN productData
            /\ DetailOfferId(output[k + 1]) = OfferIdOf(row)
            /\ FeedOfferId(supplemental_feed[k + 1]) = OfferIdOf(row)
            /\ DetailBenchmarkPrice(output[k + 1]) = Rat(BenchmarkPriceOf(row), MicrosPerUnit)
            /\ DetailBenchmarkPrice(output[k + 1]).n > 0
    /\ \A i \in 1..Len(benchmarkData) :
         (BenchmarkPriceOf(benchmarkData[i]) <= 0
            \/ ProductIdOf(benchmarkData[i]) \notin DOMAIN productData)
           => \A k \in 1..Len(emitted) : emitted[k] # i
    /\ (mergeStatus = "returned" /\ benchmarkData # <<>>) =>
         sheets[BENCHMARK_SHEET] = output

\* A row without benchmark price whose product is known and in stock is left
\* out, the priced row after it is written.
C9_Witness ==
  /\ mergeStatus = "returned"
  /\ Len(benchmarkData) = 2
  /\ BenchmarkPriceOf(benchmarkData[1]) = 0
  /\ ProductIdOf(benchmarkData[1]) \in DOMAIN productData
  /\ productData[ProductIdOf(benchmarkData[1])].availability = "in stock"
  /\ emitted = <<2>>
  /\ Len(sheets[BENCHMARK_SHEET]) = 2

\* C10 (as claimed): every row pushed carries a label that is not empty and
\* is in EXPORT_LABELS, whatever list the configuration built.
C10_LabelNonEmptyAndExported ==
  mergeStatus # "idle" =>
    \A k \in 2..Len(output) :
      /\ DetailLabel(output[k]) # ""
      /\ InExportLabels(DetailLabel(output[k]))
      /\ FeedLabel(supplemental_feed[k]) # ""
      /\ InExportLabels(FeedLabel(supplemental_feed[k]))

\* C10 (amended): every row pushed carries a label that is in EXPORT_LABELS,
\* the same in both rows, and a benchmark row whose label is not in
\* EXPORT_LABELS is not pushed whatever its product's stock and availability;
\* the label is not empty when EXPORT_LABELS holds no empty name.
C10_LabelExported ==
  mergeStatus # "idle" =>
    /\ \A k \in 2..Len(output) :
         /\ InExportLabels(DetailLabel(output[k]))
         /\ FeedLabel(supplemental_feed[k]) = DetailLabel(output[k])
         /\ ~InExportLabels("") => DetailLabel(output[k]) # ""
    /\ \A i \in 1..Len(benchmarkData) :
         LET row == benchmarkData[i]
         IN (BenchmarkPriceOf(row) > 0
               /\ ~InExportLabels(calculateLabel(
                     Rat(PriceOf(row) - BenchmarkPriceOf(row), BenchmarkPriceOf(row)))))
              => \A k \in 1..Len(emitted) : emitted[k] # i

\* The blank row of exportLabels checked: a row that gets no label is pushed
\* with the empty label, and a labelled one in stock is not.
C10_Witness ==
  /\ mergeStatus = "returned"
  /\ EXPORT_LABELS = <<"">>
  /\ Len(benchmarkData) = 2
  /\ PriceOf(benchmarkData[1]) = 1100000 /\ BenchmarkPriceOf(benchmarkData[1]) > 0
  /\ ProductIdOf(benchmarkData[1]) = "p1"
  /\ productData["p1"].availability = "in stock"
  /\ emitted = <<2>>
  /\ DetailLabel(output[2]) = ""

\* ------------------------------------------------------------ stock policy
\* The stock quantity as the policy counts it: a text that is no number, or
\* the empty text, counts as zero.
StockAsNumber(quantity) == IF quantity.kind = "number" THEN quantity.n ELSE 0

StockPolicyPasses(quantity) ==
  ~STOCK_ENABLED \/ StockAsNumber(quantity) >= STOCK_THRESHOLD

LabelOfRow(row) ==
  calculateLabel(Rat(PriceOf(row) - BenchmarkPriceOf(row), BenchmarkPriceOf(row)))

\* C11: every row mergeData pushes belongs to a product whose availability is
\* "in stock" and whose stock passes the policy (always, with stock tracking
\* off; stockQuantity >= STOCK_THRESHOLD with it on, a non-numeric or empty
\* quantity counting as zero); and when mergeData returns, a priced row of a
\* known product with an exported label is left out only for its
\* availability or for the policy.
C11_InStockAndStockPolicy ==
  mergeStatus # "idle" =>
    /\ \A k \in 1..Len(emitted) :
         LET product == productData[ProductIdOf(benchmarkData[emitted[k]])]
         IN /\ product.availability = "in stock"
            /\ StockPolicyPasses(product.stockQuantity)
    /\ mergeStatus = "returned" =>
         \A i \in 1..Len(benchmarkData) :
           LET row == benchmarkData[i]
           IN (/\ BenchmarkPriceOf(row) > 0
               /\ ProductIdOf(row) \in DOMAIN productData
               /\ InExportLabels(LabelOfRow(row))
               /\ productData[ProductIdOf(row)].availability = "in stock"
               /\ StockPolicyPasses(productData[ProductIdOf(row)].stockQuantity))
              => \E k \in 1..Len(emitted) : emitted[k] = i

\* Stock tracking on with a threshold above 0: the row whose product holds
\* exactly the threshold is pushed, the row whose product is in stock with an
\* empty stock attribute is not.
C11_Witness ==
  /\ mergeStatus = "returned"
  /\ STOCK_ENABLED /\ STOCK_THRESHOLD = StockThreshold
  /\ Len(benchmarkData) = 2
  /\ ProductIdOf(benchmarkData[1]) = "p1" /\ ProductIdOf(benchmarkData[2]) = "p2"
  /\ DOMAIN productData = {"p1", "p2"}
  /\ productData["p1"].stockQuantity = NumberText(StockThreshold)
  /\ productData["p2"].stockQuantity = EmptyText
  /\ productData["p2"].availability = "in stock"
  /\ InExportLabels(LabelOfRow(benchmarkData[2]))
  /\ emitted = <<1>>

\* ------------------------------------------------------------ output stage
\* C14: mergeData called with an empty benchmark list returns without an
\* error, pushes nothing but the two header rows into its arrays, leaves both
\* sheets and both timestamps as they were and makes no spreadsheet call; the
\* only thing it does is log.
C14_EmptyBenchmarkOnlyLogs ==
  (mergeStatus # "idle" /\ benchmarkData = <<>>) =>
    /\ mergeStatus = "returned"
    /\ output = <<DetailHeader>>
    /\ supplemental_feed = <<SupplementalHeader>>
    /\ emitted = <<>>
    /\ sheetOps = <<>>
    /\ \A n \in DOMAIN sheets : sheets[n] = StaleRows
    /\ \A r \in DOMAIN updatedAt : ~updatedAt[r]
    /\ logs = <<Msg("No price benchmark data retrieved", <<>>)>>

\* An empty benchmark list with label export on and no stats at all.
C14_Witness ==
  /\ mergeStatus = "returned"
  /\ benchmarkData = <<>>
  /\ ACTIVATE_LABELS
  /\ "null" \in DOMAIN statsData
  /\ Len(logs) = 1

\* The places in sheetOps of a call.
CallsOf(op, on) == {k \in 1..Len(sheetOps) : sheetOps[k] = <<op, on>>}

\* C16: the supplemental sheet is written (cleared, filled, its timestamp
\* set) only with ACTIVATE_LABELS on; and whenever mergeData gets past its
\* loop over a non-empty benchmark list (the output stage), the detail sheet
\* is written with the detail rows, whatever the list holds, also when every
\* row of it was left out, and the supplemental sheet is written iff
\* ACTIVATE_LABELS is on.
C16_SupplementalOnlyWhenActivated ==
  /\ (\/ \E op \in {"clear", "setValues"} : CallsOf(op, OUTPUT_SHEET) # {}
      \/ CallsOf("setValue", RANGE_OUTPUT) # {}
      \/ sheets[OUTPUT_SHEET] # StaleRows
      \/ updatedAt[RANGE_OUTPUT]) => ACTIVATE_LABELS
  /\ (mergeStatus = "returned" /\ benchmarkData # <<>>) =>
       /\ CallsOf("setValues", BENCHMARK_SHEET) # {}
       /\ sheets[BENCHMARK_SHEET] = output
       /\ updatedAt[RANGE_BENCHMARK]
       /\ ACTIVATE_LABELS =>
            /\ CallsOf("setValues", OUTPUT_SHEET) # {}
            /\ sheets[OUTPUT_SHEET] = supplemental_feed
            /\ updatedAt[RANGE_OUTPUT]

\* Label export off and a benchmark list of which no row is pushed: the
\* detail sheet holds the header alone, the supplemental sheet is untouched.
C16_Witness ==
  /\ mergeStatus = "returned"
  /\ ~ACTIVATE_LABELS
  /\ Len(benchmarkData) = 2
  /\ emitted = <<>>
  /\ sheets[BENCHMARK_SHEET] = <<DetailHeader>>
  /\ sheets[OUTPUT_SHEET] = StaleRows
  /\ ~updatedAt[RANGE_OUTPUT]

\* C18: the rows pushed follow the benchmark list: their places are strictly
\* increasing, the k-th detail row and the k-th supplemental row after the
\* headers both come from the k-th place and carry its offer id and the same
\* label, equal benchmark rows are pushed alike (each its own rows), and
\* every detail row is as long as the detail header: 12 columns with stock
\* tracking, 11 without.
C18_OrderKeptNoDedup ==
  mergeStatus # "idle" =>
    /\ Len(output) = Len(emitted) + 1
    /\ Len(supplemental_feed) = Len(emitted) + 1
    /\ \A k \in 1..Len(emitted) :
         /\ emitted[k] \in 1..Len(benchmarkData)
         /\ k > 1 => emitted[k - 1] < emitted[k]
         /\ DetailOfferId(output[k + 1]) = OfferIdOf(benchmarkData[emitted[k]])
         /\ FeedOfferId(supplemental_feed[k + 1]) = DetailOfferId(output[k + 1])
         /\ FeedLabel(supplemental_feed[k + 1]) = DetailLabel(output[k + 1])
         /\ DetailLabel(output[k + 1]) = LabelOfRow(benchmarkData[emitted[k]])
    /\ \A k \in 1..Len(output) :
         /\ Len(output[k]) = Len(output[1])
         /\ Len(output[k]) = IF STOCK_ENABLED THEN 12 ELSE 11
    /\ \A k \in 1..Len(supplemental_feed) : Len(supplemental_feed[k]) = 2
    /\ mergeStatus = "returned" =>
         \A i, j \in 1..Len(benchmarkData) :
           benchmarkData[i] = benchmarkData[j] =>
             ((\E k \in 1..Len(emitted) : emitted[k] = i)
                <=> (\E k \in 1..Len(emitted) : emitted[k] = j))

\* The same benchmark row twice with a different one between them that is
\* left out: two equal detail rows, in the sheet too.
C18_Witness ==
  /\ mergeStatus = "returned"
  /\ STOCK_ENABLED
  /\ Len(benchmarkData) = 2
  /\ benchmarkData[1] = benchmarkData[2]
  /\ emitted = <<1, 2>>
  /\ output[2] = output[3]
  /\ Len(output[2]) = 12
  /\ sheets[BENCHMARK_SHEET] = output

\* C19: no spreadsheet call is made twice; a sheet that is written is first
\* cleared, then filled, then its timestamp is set, and afterwards holds
\* exactly the rows pushed (no row of an earlier run is left); the three
\* calls for the detail sheet come before those for the supplemental sheet.
C19_ClearThenWriteOnce ==
  /\ \A i, j \in 1..Len(sheetOps) : sheetOps[i] = sheetOps[j] => i = j
  /\ \A t \in {<<BENCHMARK_SHEET, RANGE_BENCHMARK>>, <<OUTPUT_SHEET, RANGE_OUTPUT>>} :
       (\/ CallsOf("clear", t[1]) # {}
        \/ CallsOf("setValues", t[1]) # {}
        \/ CallsOf("setValue", t[2]) # {}
        \/ sheets[t[1]] # StaleRows
        \/ updatedAt[t[2]]) =>
         \E k \in 1..Len(sheetOps) - 2 :
           /\ sheetOps[k] = <<"clear", t[1]>>
           /\ sheetOps[k + 1] = <<"setValues", t[1]>>
           /\ sheetOps[k + 2] = <<"setValue", t[2]>>
           /\ sheets[t[1]] = IF t[1] = BENCHMARK_SHEET THEN output ELSE supplemental_feed
           /\ updatedAt[t[2]]
  /\ \A i \in CallsOf("setValue", RANGE_BENCHMARK) :
       \A j \in CallsOf("clear", OUTPUT_SHEET) : i < j
  /\ CallsOf("clear", OUTPUT_SHEET) # {} => CallsOf("clear", BENCHMARK_SHEET) # {}

\* Both sheets written, each with fewer rows than the earlier run left.
C19_Witness ==
  /\ mergeStatus = "returned"
  /\ Len(sheetOps) = 6
  /\ Len(output) = 2
  /\ Len(output) < Len(StaleRows)
  /\ sheets[BENCHMARK_SHEET] = output
  /\ sheets[OUTPUT_SHEET] = supplemental_feed

\* ------------------------------------------------ downloadReport's counter
\* The code-500 answers among the first k answers.
Count500(k) == Cardinality({j \in 1..k : Is500(raws[j])})

\* The pages among the first k answers.
CountPages(k) == Cardinality({j \in 1..k : IsPage(raws[j])})

\* C20: nTries counts the code-500 answers of the whole download, the pages
\* received between them notwithstanding; so a download gets at most
\* maxTries + 1 code-500 answers, makes at most maxTries retries and at most
\* Len(pages) + maxTries requests, and the code-500 answer that finds maxTries
\* retries spent is fatal at once, on whichever page the retries were spent.
C20_SharedRetryCounter ==
  fn = "downloadReport" =>
    /\ Len(requests) = Len(raws)
    /\ nTries = (IF Count500(Len(raws)) > maxTries THEN maxTries
                 ELSE Count500(Len(raws)))
    /\ Count500(Len(raws)) <= maxTries + 1
    /\ Cardinality({j \in 2..Len(requests) :
                      Is500(raws[j - 1]) /\ requests[j] = requests[j - 1]}) <= maxTries
    /\ Len(requests) <= Len(pages) + maxTries
    /\ Len(requests) <= CountPages(Len(raws)) + maxTries + 1
    /\ \A k \in 1..Len(raws) :
         (Is500(raws[k]) /\ Count500(k - 1) = maxTries) =>
           /\ k = Len(raws)
           /\ status = "Error"
           /\ thrown = downloadReportError(fullResults)

\* Three retries spent on the first page, the page received, and the first
\* code-500 answer on the second page fatal without a retry.
C20_Witness ==
  /\ fn = "downloadReport"
  /\ status = "Error"
  /\ Len(raws) = 5
  /\ \A j \in 1..3 : Is500(raws[j])
  /\ IsPage(raws[4])
  /\ Is500(raws[5])
  /\ requests = <<EmptyToken, EmptyToken, EmptyToken, EmptyToken, 1>>
  /\ fullResults = PageResults(raws[4])


\* ------------------------------------------------------ runVisibilityBooster
\* At most MaxRunPages pages behind a query of a run, each of no record or
\* one; batches of at most MaxBatchSize products.
MaxRunPages == 2
MaxBatchSize == 2

RunDataSets == UNION {[1..np -> {0, 1}] : np \in 1..MaxRunPages}

\* The performance report of a run fits one page.
StatDataSets == {dataSet \in RunDataSets : Len(dataSet) = 1}

\* The product of the records of page k: the pages after the first hold the
\* same product.
RunProductId(k) == IF k = 1 THEN "p1" ELSE "p2"

\* The row of the benchmark report that a record of the endpoint stands for:
\* a price 10% over the benchmark.
benchmarkRowOf(rec) ==
  BenchmarkRow(RunProductId(rec[1]), OfferOf(RunProductId(rec[1])), 1100000,
               MicrosPerUnit)

\* The row of the performance report that a record of the endpoint stands for.
statRowOf(rec) ==
  [segments |-> [offerId |-> OfferOf(RunProductId(rec[1]))],
   metrics |-> [impressions |-> 10, clicks |-> 2]]

\* [...new Set(offerList)]: the first occurrence of each element, in order
RECURSIVE uniqueList(_)
uniqueList(list) ==
  IF list = <<>> THEN <<>>
  ELSE LET front == uniqueList(SubSeq(list, 1, Len(list) - 1))
           last == list[Len(list)]
       IN IF \E k \in 1..Len(front) : front[k] = last THEN front
          ELSE Append(front, last)

\* products/batch: an entry with the product of every entry of the request
BatchPage(sent) ==
  [entries |-> [k \in 1..Len(sent) |->
                  [product |-> [id |-> sent[k], availability |-> "in stock"]]]]

\* What concat(undefined) appends to responses.
Undefined == [undefined |-> TRUE]

InitRun ==
  /\ DefaultRules /\ IdleLabel /\ IdleFlatten
  /\ fn = "runVisibilityBooster" /\ apiHasList = FALSE /\ countOnly = FALSE
  /\ pages = <<>>
  /\ pageToken = EmptyToken /\ fullResults = <<>> /\ nTries = 0
  /\ optionsPageToken = Null /\ resultRecords = <<>> /\ resultCount = Null
  /\ status = "running" /\ thrown = Msg("", <<>>) /\ retval = <<>>
  /\ logs = <<>> /\ requests = <<>> /\ raws = <<>>
  /\ STOCK_ENABLED = FALSE /\ STOCK_THRESHOLD = 0 /\ ACTIVATE_LABELS = TRUE
  /\ EXPORT_LABELS = <<ABOVE_BENCHMARK_NAME>>
  /\ benchmarkData = <<>> /\ productData = NoProducts /\ statsData = [null |-> TRUE]
  /\ output = <<>> /\ supplemental_feed = <<>> /\ emitted = <<>>
  /\ mergeStatus = "idle"
  /\ sheets = [n \in {BENCHMARK_SHEET, OUTPUT_SHEET} |-> StaleRows]
  /\ updatedAt = [r \in {RANGE_BENCHMARK, RANGE_OUTPUT} |-> FALSE]
  /\ sheetOps = <<>>
  /\ runAt = "runVisibilityBooster" /\ runStatus = "running"
  /\ merchantIdBound \in BOOLEAN
  /\ LogBound \in BOOLEAN
  /\ benchmarkPages \in RunDataSets
  /\ statPages \in StatDataSets
  /\ batch_size \in 1..MaxBatchSize
  /\ offerList = <<>> /\ batchAt = 0 /\ responses = <<>> /\ batchRequests = <<>>
  /\ batchResponses = <<>>

\* Logger.log(...); downloadReport(api, merchantId, query): the call begins
\* on the data set behind the query.
callDownloadReport(dataSet, logged) ==
  /\ fn' = "downloadReport" /\ pages' = dataSet
  /\ pageToken' = EmptyToken /\ fullResults' = <<>> /\ nTries' = 0
  /\ status' = "running" /\ retval' = <<>>
  /\ logs' = <<logged>> /\ requests' = <<>> /\ raws' = <<>>
  /\ UNCHANGED <<apiHasList, countOnly, optionsPageToken, resultRecords,
                 resultCount, thrown>>

\* getProducts(offerList, merchantApi, BATCH_SIZE): the call begins.
callGetProducts ==
  /\ fn' = "getProducts" /\ runAt' = "getProducts"
  /\ batchAt' = 0 /\ responses' = <<>> /\ batchRequests' = <<>>
  /\ batchResponses' = <<>>

\* runVisibilityBooster up to getPriceBenchmark's call of downloadReport; the
\* log line before it reads `merchantId`.
getPriceBenchmark ==
  /\ runAt = "runVisibilityBooster" /\ runStatus = "running"
  /\ IF merchantIdBound
     THEN /\ callDownloadReport(benchmarkPages,
               Msg("Getting Price Benchmark stats for account #", <<"merchantId">>))
          /\ runAt' = "getPriceBenchmark"
          /\ UNCHANGED runStatus
     ELSE /\ runStatus' = "ReferenceError"
          /\ runAt' = "done"
          /\ UNCHANGED fetchVars
  /\ UNCHANGED <<merchantIdBound, LogBound, benchmarkPages, statPages, batch_size,
                 offerList, batchAt, responses, batchRequests, batchResponses>>
  /\ UNCHANGED <<flattenVars, ruleVars, labelVars, configVars, mergeVars>>

\* The rest of getPriceBenchmark and getStats up to its call of
\* downloadReport, or all of it when offerList is empty.
getStats ==
  /\ runAt = "getPriceBenchmark" /\ status = "returned"
  /\ benchmarkData' = [k \in 1..Len(retval) |-> benchmarkRowOf(retval[k])]
  /\ offerList' = uniqueList([k \in 1..Len(retval) |-> RunProductId(retval[k][1])])
  /\ IF Len(offerList') > 0
     THEN /\ callDownloadReport(statPages,
               Msg("Getting performance data for account #", <<"merchantId">>))
          /\ runAt' = "getStats"
          /\ UNCHANGED <<statsData, batchAt, responses, batchRequests,
                         batchResponses>>
     ELSE /\ statsData' = [null |-> TRUE]
          /\ callGetProducts
          /\ UNCHANGED <<apiHasList, countOnly, pages, pageToken, fullResults, nTries,
                         optionsPageToken, resultRecords, resultCount, status, thrown,
                         retval, logs, requests, raws>>
  /\ UNCHANGED <<runStatus, merchantIdBound, LogBound, benchmarkPages, statPages,
                 batch_size>>
  /\ UNCHANGED <<flattenVars, ruleVars, labelVars, configVars, productData, output,
                 supplemental_feed, emitted, mergeStatus, sheets, updatedAt, sheetOps>>

\* metrics[row.segments.offerId] = {...} for every row, a later row over an
\* earlier one; null when the report has no row
metricsOf(stats) ==
  IF Len(stats) > 0
  THEN [map |-> [o \in {stats[k].segments.offerId : k \in 1..Len(stats)} |->
                   LET last == CHOOSE k \in 1..Len(stats) :
                                 /\ stats[k].segments.offerId = o
                                 /\ \A j \in (k + 1)..Len(stats) :
                                      stats[j].segments.offerId # o
                   IN [impressions |-> stats[last].metrics.impressions,
                       clicks |-> stats[last].metrics.clicks]]]
  ELSE [null |-> TRUE]

\* The rest of getStats, and the call of getProducts.
getStatsReturn ==
  /\ runAt = "getStats" /\ status = "returned"
  /\ statsData' = metricsOf([k \in 1..Len(retval) |-> statRowOf(retval[k])])
  /\ callGetProducts
  /\ UNCHANGED <<apiHasList, countOnly, pages, pageToken, fullResults, nTries,
                 optionsPageToken, resultRecords, resultCount, status, thrown,
                 retval, logs, requests, raws>>
  /\ UNCHANGED <<runStatus, merchantIdBound, LogBound, benchmarkPages, statPages,
                 batch_size, offerList>>
  /\ UNCHANGED <<flattenVars, ruleVars, labelVars, configVars, benchmarkData,
                 productData, output, supplemental_feed, emitted, mergeStatus,
                 sheets, updatedAt, sheetOps>>

\* The check passed by every list.
hasProductsAlways(productList) == TRUE

\* if (productList.length > 0)
hasProducts(productList) == Len(productList) > 0

\* throw new Error('No products returned from the price benchmark query')
getProductsThrow ==
  /\ runAt = "getProducts" /\ ~hasProducts(offerList)
  /\ runStatus' = "Error"
  /\ thrown' = Msg("No products returned from the price benchmark query", <<>>)
  /\ runAt' = "done"
  /\ UNCHANGED <<fn, apiHasList, countOnly, pages, pageToken, fullResults, nTries,
                 optionsPageToken, resultRecords, resultCount, status, retval,
                 logs, requests, raws>>
  /\ UNCHANGED <<merchantIdBound, LogBound, benchmarkPages, statPages, batch_size,
                 offerList, batchAt, responses, batchRequests, batchResponses>>
  /\ UNCHANGED <<flattenVars, ruleVars, labelVars, configVars, mergeVars>>

\* if ((i + 1) % batch_size == 0 || i == productList.length - 1), for the
\* element at place n (i + 1 = n)
closesBatch(n, productList) == n % batch_size = 0 \/ n = Len(productList)

\* The iterations of productList.forEach up to and including the next one
\* that sends a batch, and the handling of its answer.
getProductsBatch ==
  /\ runAt = "getProducts" /\ hasProducts(offerList) /\ batchAt < Len(offerList)
  /\ LET last == CHOOSE n \in (batchAt + 1)..Len(offerList) :
                   /\ closesBatch(n, offerList)
                   /\ \A m \in (batchAt + 1)..(n - 1) : ~closesBatch(m, offerList)
         entries == SubSeq(offerList, batchAt + 1, last)
     IN /\ batchRequests' = Append(batchRequests, entries)
        /\ \E raw \in Answers(BatchPage(entries)) :
             /\ batchResponses' = Append(batchResponses, raw)
             /\ IF callThrows(raw)
                THEN /\ runStatus' = "SyntaxError"
                     /\ runAt' = "done"
                     /\ UNCHANGED <<batchAt, responses, logs>>
                ELSE LET shoppingResponse == call(raw) IN
                  IF "error" \in DOMAIN shoppingResponse
                  THEN IF LogBound
                       THEN /\ logs' = Append(logs, Msg("Error occurred on call: #",
                                                        <<shoppingResponse>>))
                            /\ batchAt' = last
                            /\ UNCHANGED <<runStatus, runAt, responses>>
                       ELSE /\ runStatus' = "ReferenceError"
                            /\ runAt' = "done"
                            /\ UNCHANGED <<batchAt, responses, logs>>
                  ELSE /\ responses' = responses \o
                            (IF "entries" \in DOMAIN shoppingResponse
                             THEN shoppingResponse.entries ELSE <<Undefined>>)
                       /\ batchAt' = last
                       /\ UNCHANGED <<runStatus, runAt, logs>>
  /\ UNCHANGED <<fn, apiHasList, countOnly, pages, pageToken, fullResults, nTries,
                 optionsPageToken, resultRecords, resultCount, status, thrown,
                 retval, requests, raws>>
  /\ UNCHANGED <<merchantIdBound, LogBound, benchmarkPages, statPages, batch_size,
                 offerList>>
  /\ UNCHANGED <<flattenVars, ruleVars, labelVars, configVars, mergeVars>>

\* products[row.product.id] = {stockQuantity, availability} for every row of
\* responses; no product of a run carries custom attributes, so that
\* custom_attribute_value stays ''
productsOf(rows) ==
  [id \in {rows[k].product.id : k \in 1..Len(rows)} |->
     LET last == CHOOSE k \in 1..Len(rows) :
                   /\ rows[k].product.id = id
                   /\ \A j \in (k + 1)..Len(rows) : rows[j].product.id # id
     IN [stockQuantity |-> EmptyText, availability |-> rows[last].product.availability]]

\* The code after productList.forEach, and the call of mergeData; row.product
\* of an undefined row throws.
getProductsReturn ==
  /\ runAt = "getProducts" /\ hasProducts(offerList) /\ batchAt = Len(offerList)
  /\ IF \E k \in 1..Len(responses) : responses[k] = Undefined
     THEN /\ runStatus' = "TypeError"
          /\ runAt' = "done"
          /\ UNCHANGED <<fn, productData>>
     ELSE /\ productData' = productsOf(responses)
          /\ fn' = "mergeData"
          /\ runAt' = "mergeData"
          /\ UNCHANGED runStatus
  /\ UNCHANGED <<apiHasList, countOnly, pages, pageToken, fullResults, nTries,
                 optionsPageToken, resultRecords, resultCount, status, thrown,
                 retval, logs, requests, raws>>
  /\ UNCHANGED <<merchantIdBound, LogBound, benchmarkPages, statPages, batch_size,
                 offerList, batchAt, responses, batchRequests, batchResponses>>
  /\ UNCHANGED <<flattenVars, ruleVars, labelVars, configVars, benchmarkData,
                 statsData, output, supplemental_feed, emitted, mergeStatus,
                 sheets, updatedAt, sheetOps>>

\* An exception of downloadReport or of mergeData: nothing in
\* runVisibilityBooster or its callers catches it.
runVisibilityBoosterThrows ==
  /\ runStatus = "running"
  /\ \/ /\ runAt \in {"getPriceBenchmark", "getStats"}
        /\ status \notin {"running", "returned"}
        /\ runStatus' = status
     \/ /\ runAt = "mergeData"
        /\ mergeStatus \notin {"idle", "returned"}
        /\ runStatus' = mergeStatus
  /\ runAt' = "done"
  /\ UNCHANGED <<merchantIdBound, LogBound, benchmarkPages, statPages, batch_size,
                 offerList, batchAt, responses, batchRequests, batchResponses>>
  /\ UNCHANGED <<fetchVars, flattenVars, ruleVars, labelVars, configVars, mergeVars>>

\* mergeData returns, and runVisibilityBooster with it.
runVisibilityBoosterReturn ==
  /\ runStatus = "running" /\ runAt = "mergeData" /\ mergeStatus = "returned"
  /\ runStatus' = "returned"
  /\ runAt' = "done"
  /\ UNCHANGED <<merchantIdBound, LogBound, benchmarkPages, statPages, batch_size,
                 offerList, batchAt, responses, batchRequests, batchResponses>>
  /\ UNCHANGED <<fetchVars, flattenVars, ruleVars, labelVars, configVars, mergeVars>>

NextRun ==
  \/ getPriceBenchmark
  \/ downloadReportStep
  \/ downloadReportReturn
  \/ getStats
  \/ getStatsReturn
  \/ getProductsThrow
  \/ getProductsBatch
  \/ getProductsReturn
  \/ mergeData
  \/ runVisibilityBoosterThrows
  \/ runVisibilityBoosterReturn

SpecRun == InitRun /\ [][NextRun]_vars


\* ------------------------------------------------------- claims on the run
NoProductsError == Msg("No products returned from the price benchmark query", <<>>)

\* getProducts has been called in this run.
getProductsCalled == fn \in {"getProducts", "mergeData"}

\* No spreadsheet call made, both sheets and both timestamps as they were.
NothingWritten ==
  /\ sheetOps = <<>>
  /\ \A n \in DOMAIN sheets : sheets[n] = StaleRows
  /\ \A r \in DOMAIN updatedAt : ~updatedAt[r]

\* C15: getProducts called with an empty product list throws its Error
\* before any batch request is sent, mergeData is never called and nothing is
\* written to a sheet; the benchmark download that returns no record leads
\* to this call, so that such a run ends with this Error.
C15_EmptyProductListAborts ==
  /\ (getProductsCalled /\ Len(offerList) = 0) =>
       /\ batchRequests = <<>>
       /\ runAt \in {"getProducts", "done"}
       /\ mergeStatus = "idle"
       /\ NothingWritten
       /\ runAt = "done" => (runStatus = "Error" /\ thrown = NoProductsError)
  /\ (runAt \notin {"runVisibilityBooster", "getPriceBenchmark"}
        /\ Len(requests) > 0 /\ benchmarkData = <<>> /\ status = "returned") =>
       /\ getProductsCalled /\ Len(offerList) = 0
       /\ runAt = "done" => (runStatus = "Error" /\ thrown = NoProductsError)

\* A benchmark report of two empty pages, both received: the run is over
\* with the Error of getProducts, after two requests and no batch.
C15_Witness ==
  /\ runAt = "done" /\ runStatus = "Error" /\ thrown = NoProductsError
  /\ benchmarkPages = <<0, 0>>
  /\ Len(requests) = 2
  /\ batchRequests = <<>>
  /\ NothingWritten


DetailImpressions(r) == r[10]
DetailClicks(r) == r[11]

\* The stat record of an offer id, impressions and clicks of 0 without one.
StatOrZero(offerId) ==
  IF "map" \in DOMAIN statsData /\ offerId \in DOMAIN statsData.map
  THEN statsData.map[offerId]
  ELSE [impressions |-> 0, clicks |-> 0]

\* The benchmark row passes every filter of mergeData.
PassesFilters(row) ==
  /\ BenchmarkPriceOf(row) > 0
  /\ ProductIdOf(row) \in DOMAIN productData
  /\ InExportLabels(LabelOfRow(row))
  /\ productData[ProductIdOf(row)].availability = "in stock"
  /\ StockPolicyPasses(productData[ProductIdOf(row)].stockQuantity)

\* C12: in a run that reached mergeData and is over, every detail row carries
\* the impressions and clicks of the stat record of its offer id, 0 and 0
\* without one, and every benchmark row that passes the filters has its
\* detail row, also when getStats got no row from the performance query.
C12_StatsByOfferIdOrZero ==
  (runAt = "done" /\ mergeStatus # "idle") =>
    /\ \A k \in 1..Len(emitted) :
         LET stat == StatOrZero(OfferIdOf(benchmarkData[emitted[k]]))
         IN /\ DetailImpressions(output[k + 1]) = stat.impressions
            /\ DetailClicks(output[k + 1]) = stat.clicks
    /\ \A i \in 1..Len(benchmarkData) :
         PassesFilters(benchmarkData[i]) => \E k \in 1..Len(emitted) : emitted[k] = i

\* The tables are written from all the records behind the two queries and
\* from the product of every offer.
AllRecordsOf(dataSet) == Concat([k \in 1..Len(dataSet) |-> PageOfLen(k, dataSet[k])])

CompleteData ==
  /\ benchmarkData = [k \in 1..Len(AllRecordsOf(benchmarkPages)) |->
                        benchmarkRowOf(AllRecordsOf(benchmarkPages)[k])]
  /\ statsData = metricsOf([k \in 1..Len(AllRecordsOf(statPages)) |->
                              statRowOf(AllRecordsOf(statPages)[k])])
  /\ DOMAIN productData = {offerList[k] : k \in 1..Len(offerList)}

TableWritten(sheetName, updatedAtRange) ==
  \/ sheets[sheetName] # StaleRows
  \/ updatedAt[updatedAtRange]
  \/ \E k \in 1..Len(sheetOps) : sheetOps[k][2] \in {sheetName, updatedAtRange}

\* C13: a run writes both tables, from the complete benchmark, product and
\* stats data, or no table at all; a run that an exception ended wrote
\* nothing.
C13_AllOrNothing ==
  /\ (TableWritten(BENCHMARK_SHEET, RANGE_BENCHMARK)
        \/ TableWritten(OUTPUT_SHEET, RANGE_OUTPUT)) =>
       /\ CompleteData
       /\ TableWritten(BENCHMARK_SHEET, RANGE_BENCHMARK)
       /\ TableWritten(OUTPUT_SHEET, RANGE_OUTPUT)
  /\ (runAt = "done" /\ runStatus # "returned") => NothingWritten


\* --------------------------------------------------------------- getProducts
\* getProducts on its own, on a list of at most MaxProducts product ids.
MaxProducts == 3

\* The lists getPriceBenchmark makes hold no id twice: p1, p2, ... in order.
ProductLists == {[k \in 1..n |-> "p" \o ToString(k)] : n \in 0..MaxProducts}

\* getProducts called by a run that got as far as the call (`merchantId` is
\* bound, or the run would have ended before).
InitProducts ==
  /\ DefaultRules /\ IdleLabel /\ IdleFlatten /\ IdleMerge
  /\ fn = "getProducts" /\ apiHasList = FALSE /\ countOnly = FALSE /\ pages = <<>>
  /\ pageToken = EmptyToken /\ fullResults = <<>> /\ nTries = 0
  /\ optionsPageToken = Null /\ resultRecords = <<>> /\ resultCount = Null
  /\ status = "running" /\ thrown = Msg("", <<>>) /\ retval = <<>>
  /\ logs = <<>> /\ requests = <<>> /\ raws = <<>>
  /\ runAt = "getProducts" /\ runStatus = "running"
  /\ merchantIdBound = TRUE
  /\ LogBound \in BOOLEAN
  /\ benchmarkPages = <<>> /\ statPages = <<>>
  /\ batch_size \in 1..MaxBatchSize
  /\ offerList \in ProductLists
  /\ batchAt = 0 /\ responses = <<>> /\ batchRequests = <<>> /\ batchResponses = <<>>

NextProducts ==
  \/ getProductsThrow
  \/ getProductsBatch
  \/ getProductsReturn

SpecProducts == InitProducts /\ [][NextProducts]_vars

\* The k-th batch request was answered with an error response.
BatchFailed(k) ==
  /\ batchResponses[k].kind = "json"
  /\ "error" \in DOMAIN batchResponses[k].body

\* The k-th batch request was answered with the entries asked for.
BatchServed(k) ==
  /\ batchResponses[k].kind = "json"
  /\ "entries" \in DOMAIN batchResponses[k].body

ErrorLogs == SelectSeq(logs, LAMBDA m : m.text = "Error occurred on call: #")

\* C21: called with a non-empty list, getProducts sends the ids in list
\* order, each in one batch, every batch of 1 to batch_size ids and every
\* batch but the last of batch_size; an error response is logged and raises
\* nothing; unless a response is no JSON or carries neither error nor
\* entries, every id has been sent when getProducts is over; and the map
\* returned holds the ids of the batches that were served and no other.
C21_BatchesAndSkippedErrors ==
  LET sent == Concat(batchRequests)
      batches == Len(batchRequests)
  IN (getProductsCalled /\ Len(offerList) > 0) =>
       /\ Len(batchResponses) = batches
       /\ Len(sent) <= Len(offerList)
       /\ sent = SubSeq(offerList, 1, Len(sent))
       /\ \A k \in 1..batches :
            /\ Len(batchRequests[k]) \in 1..batch_size
            /\ Len(batchRequests[k]) < batch_size =>
                 (k = batches /\ sent = offerList)
       /\ Len(ErrorLogs) = Cardinality({k \in 1..batches : BatchFailed(k)})
       /\ (batches > 0 /\ BatchFailed(batches)
             /\ \A k \in 1..batches : BatchFailed(k) \/ BatchServed(k)) =>
            runStatus = "running"
       /\ (runAt # "getProducts"
             /\ \A k \in 1..batches : BatchFailed(k) \/ BatchServed(k)) =>
            /\ sent = offerList
            /\ runAt = "mergeData"
       /\ runAt = "mergeData" =>
            DOMAIN productData =
              UNION {{batchRequests[k][j] : j \in 1..Len(batchRequests[k])} :
                       k \in {b \in 1..batches : BatchServed(b)}}

====
